---- MODULE Spec2Model ----
(***************************************************************************)
(* Model of paasta_tools/contrib/graceful_container_drain.py: main() lists *)
(* the running docker containers, shuffles them and prints, container by   *)
(* container, the shell lines that drain it (hadown, sleep, docker kill,   *)
(* haup, sleep), keeping a virtual clock t and the list drained_apps.      *)
(*                                                                         *)
(* A text (a Python str) is a sequence of chunks [s |-> name, n |-> len]:  *)
(* a run of n characters that holds no newline and no blank, or the one    *)
(* character chunks NL and SP.  One step of the model is one cmd() call    *)
(* with the statements that consume its result, or one printed shell line  *)
(* with the bookkeeping statement that goes with it.                       *)
(***************************************************************************)
EXTENDS Integers, Sequences, FiniteSets, TLC

\* ------------------------------------------------------------- bounds
MaxContainers == 3

\* ------------------------------------------------- program constants
IdLen == 12
smartstack_grace_sleep == 10
between_containers_grace_sleep == 10
min_kill_interval == 60
hadown_expire_in_seconds == 120
NeverKilled == -1000
SIGKILLED == -9
ENOENT == 2

\* -------------------------------------------------------------- texts
NL == [s |-> "\n", n |-> 1]
SP == [s |-> " ", n |-> 1]
NoValue == "None"

RECURSIVE TextLen(_)
TextLen(text) ==
    IF text = <<>> THEN 0 ELSE Head(text).n + TextLen(Tail(text))

\* str.rstrip("\n")
RECURSIVE RstripNL(_)
RstripNL(text) ==
    IF text # <<>> /\ text[Len(text)] = NL
    THEN RstripNL(SubSeq(text, 1, Len(text) - 1))
    ELSE text

\* str.rstrip(): trailing whitespace goes
RECURSIVE Rstrip(_)
Rstrip(text) ==
    IF text # <<>> /\ text[Len(text)] \in {NL, SP}
    THEN Rstrip(SubSeq(text, 1, Len(text) - 1))
    ELSE text

\* "\n".join(output)
RECURSIVE JoinNL(_)
JoinNL(ls) ==
    IF ls = <<>> THEN <<>>
    ELSE IF Len(ls) = 1 THEN ls[1]
    ELSE ls[1] \o <<NL>> \o JoinNL(Tail(ls))

\* output.split("\n"): always at least one piece, [""] for the empty text
RECURSIVE SplitNL(_, _)
SplitNL(text, cur) ==
    IF text = <<>> THEN <<cur>>
    ELSE IF Head(text) = NL THEN <<cur>> \o SplitNL(Tail(text), <<>>)
    ELSE SplitNL(Tail(text), Append(cur, Head(text)))

Split(text) == SplitNL(text, <<>>)

\* ---------------------------------------------------- the environment
IdNames == <<"c1", "c2", "c3", "c4", "c5", "c6">>
IdText(i) == <<[s |-> IdNames[i], n |-> IdLen]>>
\* what `docker ps -q` may write besides ids (stderr is merged into stdout)
NoiseLine == <<[s |-> "WARNING", n |-> 7]>>
PaddedLine == <<[s |-> "short", n |-> IdLen - 1], SP>>

Keys == {<<"svcA", "main">>, <<"svcA", "canary">>, <<"svcB", "main">>}
MarathonPortText == "31001"
PortTable == [p \in {"31001"} |-> 31001]
RequiredEnv == {"PAASTA_SERVICE", "PAASTA_INSTANCE", "MARATHON_PORT"}

\* the Config.Env array of one container, each "K=V" entry already a pair
FullEnv(key) ==
    << <<"PATH", "/bin">>, <<"PAASTA_SERVICE", key[1]>>,
       <<"PAASTA_INSTANCE", key[2]>>, <<"MARATHON_PORT", MarathonPortText>> >>
RECURSIVE WithoutKey(_, _)
WithoutKey(arr, k) ==
    IF arr = <<>> THEN <<>>
    ELSE IF Head(arr)[1] = k THEN WithoutKey(Tail(arr), k)
    ELSE <<Head(arr)>> \o WithoutKey(Tail(arr), k)
EnvArrays ==
    {FullEnv(key) : key \in Keys}
    \cup {WithoutKey(FullEnv(<<"svcA", "main">>), k) : k \in RequiredEnv}

\* Python's None, for a value that is an int otherwise: <<>>, the value v is <<v>>
None == <<>>
Some(v) == <<v>>

\* /nail/etc/services/<service>/smartstack.yaml, the same files throughout a
\* run: absent, or the set of its <<instance, field, value>> entries.  svcA's
\* file gives main a proxy port and does not name canary; svcB has no file.
SmartstackYaml(service_name) ==
    IF service_name = "svcA"
    THEN [exists |-> TRUE,
          data |-> {<<"main", "mode", "http">>, <<"main", "proxy_port", "20001">>}]
    ELSE [exists |-> FALSE, data |-> {}]

VARIABLES pc, rc, output, lines, running_container_ids, todo, container_id,
          environment, service, instance, marathon_port, proxy_port,
          drained_apps, t, timeline, invoked, exit_status

\* One call of cmd() seen from inside, with its child process and its timer
\* thread.  cpc: where the calling thread is.  proc, proc_status, towrite,
\* pipe: the child, its wait status, the lines it has yet to write and those
\* written and not yet read.  proctimer: the threading.Timer and, once it
\* has fired, where _timeout is.  cmd_lines, returncode: cmd's locals output
\* and returncode.  handled: the except clause taken.  interrupt, raised: the
\* interrupt delivered to the calling thread and the exception that leaves
\* cmd.  killed_by, fired_when: who sent the child a SIGKILL that reached
\* it, and whether the child was alive when the timer fired.
VARIABLES cpc, proc, proc_status, towrite, pipe, proctimer, cmd_lines,
          returncode, handled, raised, interrupt, killed_by, fired_when

mainvars == <<pc, rc, output, lines, running_container_ids, todo, container_id,
              environment, service, instance, marathon_port, proxy_port,
              drained_apps, t, timeline, invoked, exit_status>>

cmdvars == <<cpc, proc, proc_status, towrite, pipe, proctimer, cmd_lines,
             returncode, handled, raised, interrupt, killed_by, fired_when>>

vars == <<mainvars, cmdvars>>

\* ------------------------------------------------------ pure functions
\* docker_env_to_dict: later entries of the array overwrite earlier ones
RECURSIVE docker_env_to_dict(_)
docker_env_to_dict(environment_array) ==
    IF environment_array = <<>> THEN [k \in {} |-> NoValue]
    ELSE LET n == Len(environment_array)
             kv == environment_array[n]
             rest == docker_env_to_dict(SubSeq(environment_array, 1, n - 1))
         IN [k \in DOMAIN rest \cup {kv[1]} |->
                IF k = kv[1] THEN kv[2] ELSE rest[k]]

has_all_paasta_env(env) == \A k \in RequiredEnv : k \in DOMAIN env

get_proxy_port(service_name, instance_name) ==
    LET yaml == SmartstackYaml(service_name) IN
    IF ~yaml.exists THEN None
    ELSE IF \E e \in yaml.data : e[1] = instance_name
         THEN IF \E e \in yaml.data : e[1] = instance_name /\ e[2] = "proxy_port"
              THEN Some((CHOOSE e \in yaml.data :
                            e[1] = instance_name /\ e[2] = "proxy_port")[3])
              ELSE None
         ELSE None

\* get_last_killed with last_killed_t starting at 0 in place of -1000
RECURSIVE get_last_killed_ZeroDefault(_, _, _)
get_last_killed_ZeroDefault(apps, svc, inst) ==
    IF apps = <<>> THEN 0
    ELSE LET drained_app == apps[Len(apps)]
         IN IF drained_app[2] = svc /\ drained_app[3] = inst
            THEN drained_app[1]
            ELSE get_last_killed_ZeroDefault(SubSeq(apps, 1, Len(apps) - 1), svc, inst)

\* look back in drained_apps for the last kill of (service, instance)
RECURSIVE get_last_killed(_, _, _)
get_last_killed(apps, svc, inst) ==
    IF apps = <<>> THEN NeverKilled
    ELSE LET drained_app == apps[Len(apps)]
         IN IF drained_app[2] = svc /\ drained_app[3] = inst
            THEN drained_app[1]
            ELSE get_last_killed(SubSeq(apps, 1, Len(apps) - 1), svc, inst)

\* SleepAmount with the subtraction of line 167 the wrong way round
SleepAmount_SignSlip(now, last_killed_t) ==
    IF (now - last_killed_t) < min_kill_interval
    THEN (now - last_killed_t) - min_kill_interval + between_containers_grace_sleep
    ELSE between_containers_grace_sleep

SleepAmount(now, last_killed_t) ==
    IF (now - last_killed_t) < min_kill_interval
    THEN min_kill_interval - (now - last_killed_t) + between_containers_grace_sleep
    ELSE between_containers_grace_sleep

\* the length test of line 126 as an upper limit only
LooksLikeId_AtMost(line) == TextLen(line) <= IdLen
LooksLikeId(line) == TextLen(line) = IdLen

\* the status the process ends with after sys.exit(code)
ExitStatus(code) == code % 256

\* condquit testing rc > 0: a command killed by a signal passes
condquit_Positive(code) == code > 0
\* condquit(rc, message) quits exactly when rc is not 0
condquit(code) == code # 0

\* ------------------------------------------------------------- cmd()
\* raw: the lines the command writes, as readline() hands them over.
\* how: the command exits by itself with `status`, is killed by the timer,
\* or cannot be started (OSError).
TimedOutMessage == <<[s |-> "timed out", n |-> 9]>>
StrError == <<[s |-> "No such file or directory", n |-> 25]>>
RECURSIVE StripAll(_)
StripAll(raw) ==
    IF raw = <<>> THEN <<>> ELSE <<RstripNL(Head(raw))>> \o StripAll(Tail(raw))
cmd(raw, how, status) ==
    IF how = "oserror"
    THEN [rc |-> ENOENT, output |-> JoinNL(<<StrError>>)]
    ELSE IF how = "timeout"
    THEN [rc |-> SIGKILLED, output |-> JoinNL(Append(StripAll(raw), TimedOutMessage))]
    ELSE [rc |-> status, output |-> JoinNL(StripAll(raw))]
Outcomes == {<<"exit", 0>>, <<"exit", 1>>, <<"timeout", 0>>, <<"oserror", 0>>}

\* what `docker ps -q` can write: the ids of the first n containers, then
\* possibly one line that is no id
RawIds(n) == [i \in 1..n |-> IdText(i) \o <<NL>>]
PsOutputs ==
    {RawIds(n) : n \in 0..MaxContainers}
    \cup {Append(RawIds(n), NoiseLine \o <<NL>>) : n \in 0..(MaxContainers - 1)}
    \cup {Append(RawIds(n), PaddedLine \o <<NL>>) : n \in 0..(MaxContainers - 1)}

\* ---------------------------------------------------------- timeline
\* One printed line.  kind: the shell command (route_out is hadown, route_in
\* is haup), or comment, warning, message, blank.  info is the
\* second comment line of a container, with its proxy port.  cid and at are not part of
\* the printed text: the container the loop is at and the value of t when
\* the line is printed.
Entry(kind, cid, at, secs, port, note) ==
    [kind |-> kind, cid |-> cid, at |-> at, secs |-> secs, port |-> port,
     note |-> note]
Message(text) == Entry("message", <<>>, 0, 0, None, text)
ActionKinds == {"route_out", "sleep", "kill", "route_in"}

InitMain ==
    /\ pc = "start"
    /\ rc = 0
    /\ output = <<>>
    /\ lines = <<>>
    /\ running_container_ids = <<>>
    /\ todo = <<>>
    /\ container_id = <<>>
    /\ environment = [k \in {} |-> NoValue]
    /\ service = NoValue
    /\ instance = NoValue
    /\ marathon_port = None
    /\ proxy_port = None
    /\ drained_apps = <<>>
    /\ t = 0
    /\ timeline = <<>>
    /\ invoked = <<>>
    /\ exit_status = None

\* cmd() and its threads at rest, with towrite the lines the child will write
CmdAtRest(raw) ==
    /\ proc = "none"
    /\ proc_status = 0
    /\ towrite = raw
    /\ pipe = <<>>
    /\ proctimer = "unbound"
    /\ cmd_lines = <<>>
    /\ returncode = 0
    /\ handled = "none"
    /\ raised = "none"
    /\ interrupt = "none"
    /\ killed_by = "nobody"
    /\ fired_when = "not_fired"

\* main() whole, each cmd() call one step
Init ==
    /\ InitMain
    /\ cpc = "idle"
    /\ CmdAtRest(<<>>)

\* sys.exit(code) after print(message)
Quit(code, text) ==
    /\ pc' = "exited"
    /\ exit_status' = Some(ExitStatus(code))
    /\ timeline' = Append(timeline, Message(text))

\* lines 116-118
ListContainers ==
    /\ pc = "start"
    /\ \E raw \in PsOutputs, o \in Outcomes :
         LET res == cmd(raw, o[1], o[2]) IN
         /\ rc' = res.rc
         /\ output' = res.output
         /\ invoked' = Append(invoked, [command |-> "docker ps", arg |-> <<>>,
                                        rc |-> res.rc, result |-> res.output])
         /\ IF condquit(res.rc)
            THEN Quit(res.rc, "docker ps") /\ UNCHANGED lines
            ELSE /\ lines' = Split(res.output)
                 /\ pc' = "check_lines"
                 /\ UNCHANGED <<exit_status, timeline>>
    /\ UNCHANGED <<running_container_ids, todo, container_id, environment,
                   service, instance, marathon_port, proxy_port, drained_apps, t>>
    /\ UNCHANGED cmdvars

RECURSIVE RstripEach(_)
RstripEach(ls) ==
    IF ls = <<>> THEN <<>> ELSE <<Rstrip(Head(ls))>> \o RstripEach(Tail(ls))

\* lines 120-128
CheckLines ==
    /\ pc = "check_lines"
    /\ IF Len(lines) = 0
       THEN Quit(1, "no containers running") /\ UNCHANGED running_container_ids
       ELSE IF \E i \in DOMAIN lines : ~LooksLikeId(lines[i])
       THEN Quit(1, "doesn't look like a container ID")
            /\ UNCHANGED running_container_ids
       ELSE /\ running_container_ids' = RstripEach(lines)
            /\ pc' = "shuffle"
            /\ UNCHANGED <<exit_status, timeline>>
    /\ UNCHANGED <<rc, output, lines, todo, container_id, environment, service,
                   instance, marathon_port, proxy_port, drained_apps, t, invoked>>
    /\ UNCHANGED cmdvars

\* a draw with replacement in place of the shuffle
Shuffled_WithReplacement(ids) ==
    {[i \in DOMAIN ids |-> ids[p[i]]] : p \in [DOMAIN ids -> DOMAIN ids]}

\* random.shuffle: any rearrangement of the list
Shuffled(ids) ==
    {[i \in DOMAIN ids |-> ids[p[i]]] :
        p \in {q \in [DOMAIN ids -> DOMAIN ids] :
                  \A i, j \in DOMAIN ids : i # j => q[i] # q[j]}}

\* lines 130-137, and the for statement's iterator
Shuffle ==
    /\ pc = "shuffle"
    /\ \E order \in Shuffled(running_container_ids) :
         /\ running_container_ids' = order
         /\ todo' = order
    /\ drained_apps' = <<>>
    /\ t' = 0
    /\ pc' = "loop"
    /\ UNCHANGED <<rc, output, lines, container_id, environment, service,
                   instance, marathon_port, proxy_port, timeline, invoked,
                   exit_status>>
    /\ UNCHANGED cmdvars

\* the stdout of `docker inspect`, as json.loads returns it
InspectJson(env_array) == <<[Config |-> [Env |-> env_array]]>>

\* TakeIdentity with the continue of line 146 missing: after the warning the
\* loop body goes on with the identity it has
TakeIdentity_NoContinue(cid, env) ==
    IF ~has_all_paasta_env(env)
    THEN /\ timeline' = Append(timeline, Entry("warning", cid, t, 0, None,
                                               "not a paasta container, skipping"))
         /\ pc' = "route_out"
         /\ UNCHANGED <<service, instance, marathon_port, proxy_port, t>>
    ELSE /\ service' = env["PAASTA_SERVICE"]
         /\ instance' = env["PAASTA_INSTANCE"]
         /\ marathon_port' = Some(PortTable[env["MARATHON_PORT"]])
         /\ proxy_port' = get_proxy_port(env["PAASTA_SERVICE"], env["PAASTA_INSTANCE"])
         /\ timeline' = timeline \o
              << Entry("comment", cid, t, 0, None,
                       <<service', instance'>>),
                 Entry("info", cid, t, 0, marathon_port',
                       <<cid, service', instance', proxy_port', marathon_port'>>) >>
         /\ pc' = "route_out"
         /\ UNCHANGED t

\* TakeIdentity with a skipped container taking its share of the clock: the
\* between-containers sleep is counted (not printed) before the continue
TakeIdentity_SkipSleeps(cid, env) ==
    IF ~has_all_paasta_env(env)
    THEN /\ timeline' = Append(timeline, Entry("warning", cid, t, 0, None,
                                               "not a paasta container, skipping"))
         /\ pc' = "loop"
         /\ t' = t + between_containers_grace_sleep
         /\ UNCHANGED <<service, instance, marathon_port, proxy_port>>
    ELSE /\ service' = env["PAASTA_SERVICE"]
         /\ instance' = env["PAASTA_INSTANCE"]
         /\ marathon_port' = Some(PortTable[env["MARATHON_PORT"]])
         /\ proxy_port' = get_proxy_port(env["PAASTA_SERVICE"], env["PAASTA_INSTANCE"])
         /\ timeline' = timeline \o
              << Entry("comment", cid, t, 0, None,
                       <<service', instance'>>),
                 Entry("info", cid, t, 0, marathon_port',
                       <<cid, service', instance', proxy_port', marathon_port'>>) >>
         /\ pc' = "route_out"
         /\ UNCHANGED t

\* lines 144-152, after the inspect succeeded: skip, or take the identity
\* and print the two comment lines
TakeIdentity(cid, env) ==
    IF ~has_all_paasta_env(env)
    THEN /\ timeline' = Append(timeline, Entry("warning", cid, t, 0, None,
                                               "not a paasta container, skipping"))
         /\ pc' = "loop"
         /\ UNCHANGED <<service, instance, marathon_port, proxy_port, t>>
    ELSE /\ service' = env["PAASTA_SERVICE"]
         /\ instance' = env["PAASTA_INSTANCE"]
         /\ marathon_port' = Some(PortTable[env["MARATHON_PORT"]])
         /\ proxy_port' = get_proxy_port(env["PAASTA_SERVICE"], env["PAASTA_INSTANCE"])
         /\ timeline' = timeline \o
              << Entry("comment", cid, t, 0, None,
                       <<service', instance'>>),
                 Entry("info", cid, t, 0, marathon_port',
                       <<cid, service', instance', proxy_port', marathon_port'>>) >>
         /\ pc' = "route_out"
         /\ UNCHANGED t

\* lines 139-152: the next container of the loop is inspected
Inspect ==
    /\ pc = "loop"
    /\ todo # <<>>
    /\ container_id' = Head(todo)
    /\ todo' = Tail(todo)
    /\ \E env_array \in EnvArrays, o \in Outcomes :
         LET res == cmd(<<>>, o[1], o[2]) IN
         /\ rc' = res.rc
         /\ output' = IF res.rc = 0 THEN InspectJson(env_array) ELSE res.output
         /\ invoked' = Append(invoked, [command |-> "docker inspect",
                                        arg |-> Head(todo), rc |-> res.rc,
                                        result |-> output'])
         /\ IF condquit(res.rc)
            THEN /\ Quit(res.rc, "docker inspect")
                 /\ UNCHANGED <<environment, service, instance, marathon_port,
                                proxy_port, t>>
            ELSE /\ environment' = docker_env_to_dict(output'[1].Config.Env)
                 /\ TakeIdentity(Head(todo), environment')
                 /\ UNCHANGED exit_status
    /\ UNCHANGED <<lines, running_container_ids, drained_apps>>
    /\ UNCHANGED cmdvars

\* line 139 with the list used up: main returns
Finish ==
    /\ pc = "loop"
    /\ todo = <<>>
    /\ pc' = "done"
    /\ exit_status' = Some(0)
    /\ UNCHANGED <<rc, output, lines, running_container_ids, todo, container_id,
                   environment, service, instance, marathon_port, proxy_port,
                   drained_apps, t, timeline, invoked>>
    /\ UNCHANGED cmdvars

Unchanged_Locals ==
    /\ UNCHANGED <<rc, output, lines, running_container_ids, todo, container_id,
                   environment, service, instance, marathon_port, proxy_port,
                   invoked, exit_status>>
    /\ UNCHANGED cmdvars

\* RouteOut going on to the kill with no grace sleep
RouteOut_NoGrace ==
    /\ pc = "route_out"
    /\ timeline' = Append(timeline, Entry("route_out", container_id, t,
                              hadown_expire_in_seconds, marathon_port,
                              <<service, instance>>))
    /\ pc' = "kill"
    /\ UNCHANGED <<drained_apps, t>>
    /\ Unchanged_Locals

\* RouteOut printing the hadown line only when the proxy port is known
RouteOut_NeedsProxyPort ==
    /\ pc = "route_out"
    /\ timeline' = IF proxy_port = None THEN timeline
                   ELSE Append(timeline, Entry("route_out", container_id, t,
                              hadown_expire_in_seconds, marathon_port,
                              <<service, instance>>))
    /\ pc' = "grace_sleep"
    /\ UNCHANGED <<drained_apps, t>>
    /\ Unchanged_Locals

\* lines 153-155: sudo hadown -P marathon_port -e now+expire service.instance
RouteOut ==
    /\ pc = "route_out"
    /\ timeline' = Append(timeline, Entry("route_out", container_id, t,
                              hadown_expire_in_seconds, marathon_port,
                              <<service, instance>>))
    /\ pc' = "grace_sleep"
    /\ UNCHANGED <<drained_apps, t>>
    /\ Unchanged_Locals

\* GraceSleep without line 158
GraceSleep_NoAdvance ==
    /\ pc = "grace_sleep"
    /\ timeline' = Append(timeline, Entry("sleep", container_id, t,
                              smartstack_grace_sleep, None, NoValue))
    /\ pc' = "kill"
    /\ UNCHANGED <<drained_apps, t>>
    /\ Unchanged_Locals

\* lines 157-158
GraceSleep ==
    /\ pc = "grace_sleep"
    /\ timeline' = Append(timeline, Entry("sleep", container_id, t,
                              smartstack_grace_sleep, None, NoValue))
    /\ t' = t + smartstack_grace_sleep
    /\ pc' = "kill"
    /\ UNCHANGED drained_apps
    /\ Unchanged_Locals

\* Kill running the command through cmd() besides printing it
Kill_Execute ==
    /\ pc = "kill"
    /\ timeline' = Append(timeline, Entry("kill", container_id, t, 0, None,
                                          container_id))
    /\ invoked' = Append(invoked, [command |-> "docker kill", arg |-> container_id,
                                   rc |-> 0, result |-> <<>>])
    /\ pc' = "route_in"
    /\ UNCHANGED <<drained_apps, t>>
    /\ UNCHANGED <<rc, output, lines, running_container_ids, todo, container_id,
                   environment, service, instance, marathon_port, proxy_port,
                   exit_status>>
    /\ UNCHANGED cmdvars

\* line 159: sudo docker kill container_id
Kill ==
    /\ pc = "kill"
    /\ timeline' = Append(timeline, Entry("kill", container_id, t, 0, None,
                                          container_id))
    /\ pc' = "route_in"
    /\ UNCHANGED <<drained_apps, t>>
    /\ Unchanged_Locals

\* RouteIn going back to the for statement: lines 161-171 left out
RouteIn_NoCooldown ==
    /\ pc = "route_in"
    /\ timeline' = Append(timeline, Entry("route_in", container_id, t, 0,
                              marathon_port, <<service, instance>>))
    /\ pc' = "loop"
    /\ UNCHANGED <<drained_apps, t>>
    /\ Unchanged_Locals

\* line 160: sudo haup -P marathon_port service.instance
RouteIn ==
    /\ pc = "route_in"
    /\ timeline' = Append(timeline, Entry("route_in", container_id, t, 0,
                              marathon_port, <<service, instance>>))
    /\ pc' = "cooldown"
    /\ UNCHANGED <<drained_apps, t>>
    /\ Unchanged_Locals

\* Cooldown with lines 161 and 162 exchanged: the kill is recorded before the
\* lookup
Cooldown_RecordFirst ==
    /\ pc = "cooldown"
    /\ drained_apps' = Append(drained_apps, <<t, service, instance>>)
    /\ LET last_killed_t == get_last_killed(drained_apps', service, instance)
           sleep_amount == SleepAmount(t, last_killed_t)
       IN /\ timeline' = timeline \o
               << Entry("sleep", container_id, t, sleep_amount, None, NoValue),
                  Entry("blank", container_id, t + sleep_amount, 0, None, NoValue) >>
          /\ t' = t + sleep_amount
    /\ pc' = "loop"
    /\ Unchanged_Locals

\* Cooldown measuring the gap with a clock of its own, which may be a second
\* ahead of t
Cooldown_WallClock ==
    /\ pc = "cooldown"
    /\ \E drift \in {0, 1} :
         LET last_killed_t == get_last_killed(drained_apps, service, instance)
             sleep_amount == SleepAmount(t + drift, last_killed_t)
         IN /\ drained_apps' = Append(drained_apps, <<t, service, instance>>)
            /\ timeline' = timeline \o
                 << Entry("sleep", container_id, t, sleep_amount, None, NoValue),
                    Entry("blank", container_id, t + sleep_amount, 0, None, NoValue) >>
            /\ t' = t + sleep_amount
    /\ pc' = "loop"
    /\ Unchanged_Locals

\* lines 161-171: look up the last kill, record this one, print the sleep
Cooldown ==
    /\ pc = "cooldown"
    /\ LET last_killed_t == get_last_killed(drained_apps, service, instance)
           sleep_amount == SleepAmount(t, last_killed_t)
       IN /\ drained_apps' = Append(drained_apps, <<t, service, instance>>)
          /\ timeline' = timeline \o
               << Entry("sleep", container_id, t, sleep_amount, None, NoValue),
                  Entry("blank", container_id, t + sleep_amount, 0, None, NoValue) >>
          /\ t' = t + sleep_amount
    /\ pc' = "loop"
    /\ Unchanged_Locals

Next ==
    \/ ListContainers
    \/ CheckLines
    \/ Shuffle
    \/ Inspect
    \/ Finish
    \/ RouteOut
    \/ GraceSleep
    \/ Kill
    \/ RouteIn
    \/ Cooldown

Spec == Init /\ [][Next]_vars

\* ------------------------------------------------ reading the timeline
IsAction(e) == e.kind \in ActionKinds
Actions == SelectSeq(timeline, IsAction)
Last(seq) == seq[Len(seq)]
SameKey(i, j) ==
    drained_apps[i][2] = drained_apps[j][2] /\ drained_apps[i][3] = drained_apps[j][3]
\* the kills of the same key before the k-th kill
Earlier(k) == {j \in 1..(k - 1) : SameKey(j, k)}
MaxOf(S) == CHOOSE x \in S : \A y \in S : y <= x
\* the places of the sleeps that follow a route-in: the inter-container sleeps
InterSleepIdx ==
    {i \in 2..Len(timeline) :
        timeline[i].kind = "sleep" /\ timeline[i - 1].kind = "route_in"}
NthInterSleep(k) ==
    timeline[CHOOSE i \in InterSleepIdx :
                Cardinality({j \in InterSleepIdx : j <= i}) = k]
Inspections == {k \in DOMAIN invoked : invoked[k].command = "docker inspect"}
EnvKeys(k) ==
    {invoked[k].result[1].Config.Env[n][1] :
        n \in DOMAIN invoked[k].result[1].Config.Env}
\* the containers an inspect found with, and without, the whole identity
ManagedIds ==
    {invoked[k].arg : k \in {n \in Inspections :
        invoked[n].rc = 0 /\ RequiredEnv \subseteq EnvKeys(n)}}
UnmanagedIds ==
    {invoked[k].arg : k \in {n \in Inspections :
        invoked[n].rc = 0 /\ ~(RequiredEnv \subseteq EnvKeys(n))}}
EntriesOf(kind, cid) ==
    {i \in DOMAIN timeline : timeline[i].kind = kind /\ timeline[i].cid = cid}

\* C1 (as stated): any two consecutive kills of one (service, instance) key
\* are at virtual times at least min_kill_interval apart.
C1_CooldownInvariant ==
    \A i, j \in DOMAIN drained_apps :
        (i < j /\ SameKey(i, j) /\ i = MaxOf(Earlier(j)))
            => drained_apps[j][1] - drained_apps[i][1] >= min_kill_interval

\* C2 (as stated): two managed containers of one key and nothing else: the
\* first kill is at t = 10 and the sleep printed after the first container's
\* cycle is 70.
C2_TwoReplicaSleepIs70 ==
    (/\ pc = "done"
     /\ Len(running_container_ids) = 2
     /\ Len(drained_apps) = 2
     /\ SameKey(1, 2))
        => /\ drained_apps[1][1] = 10
           /\ NthInterSleep(1).secs = 70

\* C3: the sleep printed after the k-th kill is between_containers_grace_sleep
\* when the gap to the previous kill of the same key (the sentinel if there is
\* none) is at least min_kill_interval, and min_kill_interval - gap +
\* between_containers_grace_sleep otherwise; the gap is measured from the
\* kills recorded before this one.
C3_CooldownComputation ==
    /\ Cardinality(InterSleepIdx) = Len(drained_apps)
    /\ \A k \in DOMAIN drained_apps :
         LET last == IF Earlier(k) = {} THEN NeverKilled
                     ELSE drained_apps[MaxOf(Earlier(k))][1]
             gap == drained_apps[k][1] - last
         IN /\ NthInterSleep(k).at = drained_apps[k][1]
            /\ NthInterSleep(k).secs =
                 IF gap >= min_kill_interval
                 THEN between_containers_grace_sleep
                 ELSE min_kill_interval - gap + between_containers_grace_sleep

C3_Witness ==
    /\ Len(drained_apps) = 3
    /\ NthInterSleep(1).secs = 10
    /\ NthInterSleep(2).secs = 50
    /\ SameKey(1, 2)

\* C4: the five actions of a container are printed next to each other in the
\* order route-out, sleep of smartstack_grace_sleep, kill, route-in, sleep,
\* all for the same container, and the kill is smartstack_grace_sleep after
\* the route-out.
C4_PerContainerOrder ==
    \A i \in DOMAIN timeline :
        LET e == timeline[i]
            hasNext == i + 1 <= Len(timeline)
        IN /\ e.kind = "route_out" =>
                (hasNext => /\ timeline[i + 1].kind = "sleep"
                            /\ timeline[i + 1].cid = e.cid)
           /\ e.kind = "sleep" =>
                /\ i > 1
                /\ timeline[i - 1].cid = e.cid
                /\ \/ /\ timeline[i - 1].kind = "route_out"
                      /\ e.secs = smartstack_grace_sleep
                      /\ hasNext => timeline[i + 1].kind = "kill"
                   \/ /\ timeline[i - 1].kind = "route_in"
                      /\ hasNext => ~IsAction(timeline[i + 1])
           /\ e.kind = "kill" =>
                /\ i > 2
                /\ timeline[i - 1].kind = "sleep"
                /\ timeline[i - 2].kind = "route_out"
                /\ timeline[i - 2].cid = e.cid
                /\ e.at = timeline[i - 2].at + smartstack_grace_sleep
                /\ hasNext => timeline[i + 1].kind = "route_in"
           /\ e.kind = "route_in" =>
                /\ i > 1
                /\ timeline[i - 1].kind = "kill"
                /\ timeline[i - 1].cid = e.cid
                /\ hasNext => timeline[i + 1].kind = "sleep"

C4_Witness ==
    /\ pc = "done"
    /\ Len(Actions) = 10
    /\ Actions[1].cid # Actions[6].cid
    /\ Actions[8].at = Actions[6].at + smartstack_grace_sleep

\* C5: a container whose environment lacks one of PAASTA_SERVICE,
\* PAASTA_INSTANCE, MARATHON_PORT gets no route-out, kill, route-in or sleep
\* in the timeline, the skip does not end the run, and a run that ends
\* normally has inspected every container of the list.
C5_UnmanagedSkipped ==
    /\ \A i \in DOMAIN timeline :
         IsAction(timeline[i]) => timeline[i].cid \notin UnmanagedIds
    /\ (invoked # <<>> /\ Last(invoked).arg \in UnmanagedIds) => pc \in {"loop", "done"}
    /\ pc = "done" =>
         \A n \in DOMAIN running_container_ids :
            /\ \E k \in Inspections : invoked[k].arg = running_container_ids[n]
            /\ running_container_ids[n] \in ManagedIds =>
                 EntriesOf("kill", running_container_ids[n]) # {}

C5_Witness ==
    /\ pc = "done"
    /\ Len(running_container_ids) = 3
    /\ running_container_ids[1] \in UnmanagedIds
    /\ running_container_ids[2] \in ManagedIds
    /\ running_container_ids[3] \in ManagedIds
    /\ Len(Actions) = 10

\* C6: when the run completes, the processing order is a permutation of the
\* listed ids, each container was inspected once, each managed container has
\* exactly one kill in the timeline, and drained_apps holds one record per
\* managed container.
C6_ExactlyOnce ==
    pc = "done" =>
        /\ Len(running_container_ids) = Len(lines)
        /\ \A n \in DOMAIN lines :
             Cardinality({m \in DOMAIN running_container_ids :
                             running_container_ids[m] = Rstrip(lines[n])}) = 1
        /\ \A n \in DOMAIN running_container_ids :
             LET cid == running_container_ids[n] IN
             /\ Cardinality({k \in Inspections : invoked[k].arg = cid}) = 1
             /\ Cardinality(EntriesOf("kill", cid)) =
                  IF cid \in ManagedIds THEN 1 ELSE 0
        /\ Len(drained_apps) = Cardinality(ManagedIds)
        /\ Len(SelectSeq(timeline, LAMBDA e : e.kind = "kill")) = Len(drained_apps)

C6_Witness ==
    /\ pc = "done"
    /\ Len(drained_apps) = 3
    /\ running_container_ids # RstripEach(lines)

\* C7 (as stated): when the listing or an inspect fails, the run has ended
\* and no route-out, kill, route-in or sleep has been printed for any
\* container.
C7_NoActionBeforeDiscoveryFailure ==
    (invoked # <<>> /\ Last(invoked).rc # 0) => (pc = "exited" /\ Actions = <<>>)

\* C7 (amended): a failed listing or inspect is the last command of the run,
\* which ends with a status other than 0; after a failed listing nothing has
\* been printed but the message; after a failed inspect no action has been
\* printed for the inspected container, and the actions printed before are
\* the complete cycles of the containers processed earlier.
C7_DiscoveryFailureFatal ==
    \A k \in DOMAIN invoked :
        invoked[k].rc # 0 =>
            /\ k = Len(invoked)
            /\ pc = "exited"
            /\ exit_status # None
            /\ exit_status # Some(0)
            /\ Last(timeline).kind = "message"
            /\ invoked[k].command = "docker ps" => Len(timeline) = 1
            /\ invoked[k].command = "docker inspect" =>
                 /\ \A i \in DOMAIN timeline : timeline[i].cid # invoked[k].arg
                 /\ Len(Actions) = 5 * Len(drained_apps)

C7_Witness ==
    /\ pc = "exited"
    /\ Last(invoked).command = "docker inspect"
    /\ Last(invoked).rc # 0
    /\ Len(Actions) = 10

\* C8: when the listing succeeds with an empty output, the run ends with a
\* status other than 0, no action is printed and no container is inspected.
C8_EmptyInventory ==
    (/\ invoked # <<>>
     /\ invoked[1].rc = 0
     /\ invoked[1].result = <<>>
     /\ pc # "check_lines")
        => /\ pc = "exited"
           /\ exit_status # None
           /\ exit_status # Some(0)
           /\ Len(invoked) = 1
           /\ Actions = <<>>

C8_Witness ==
    /\ pc = "exited"
    /\ invoked[1].rc = 0
    /\ invoked[1].result = <<>>
    /\ lines = << <<>> >>

InfoIdx == {i \in DOMAIN timeline : timeline[i].kind = "info"}

\* C9 (as stated): a managed container whose proxy port is unknown gets no
\* route-out and no route-in line.
C9_NoRoutingWithoutProxyPort ==
    \A i \in InfoIdx :
        timeline[i].note[4] = None =>
            /\ EntriesOf("route_out", timeline[i].cid) = {}
            /\ EntriesOf("route_in", timeline[i].cid) = {}

\* C9 (amended): a managed container whose proxy port is unknown gets the
\* same five lines as any other: route-out and route-in with its
\* MARATHON_PORT, the grace sleep, the kill and the inter-container sleep.
C9_RoutingUsesMarathonPort ==
    \A i \in InfoIdx :
        timeline[i].note[4] = None =>
            LET Has(d) == i + d <= Len(timeline)
                At(d) == timeline[i + d]
            IN /\ Has(1) => /\ At(1).kind = "route_out"
                            /\ At(1).port = timeline[i].port
                            /\ At(1).cid = timeline[i].cid
               /\ Has(2) => At(2).kind = "sleep" /\ At(2).secs = smartstack_grace_sleep
               /\ Has(3) => At(3).kind = "kill" /\ At(3).cid = timeline[i].cid
               /\ Has(4) => /\ At(4).kind = "route_in"
                            /\ At(4).port = timeline[i].port
               /\ Has(5) => At(5).kind = "sleep" /\ At(5).cid = timeline[i].cid
               /\ pc \in {"loop", "done", "exited"} => Has(5)

C9_Witness ==
    /\ pc = "done"
    /\ \E i \in InfoIdx :
         /\ timeline[i].note[4] = None
         /\ i + 5 <= Len(timeline)
         /\ timeline[i + 1].kind = "route_out"
         /\ timeline[i + 4].kind = "route_in"

RECURSIVE SumSleeps(_)
SumSleeps(seq) ==
    IF seq = <<>> THEN 0
    ELSE (IF Head(seq).kind = "sleep" THEN Head(seq).secs ELSE 0) + SumSleeps(Tail(seq))

\* C10: t starts at 0, never decreases, is in every state the sum of the
\* durations of the sleeps printed so far, and a step changes it only by
\* printing sleeps, by their duration.
C10_VirtualClock ==
    /\ t = 0
    /\ [](t = SumSleeps(timeline) /\ t >= 0)
    /\ [][/\ t' >= t
          /\ Len(timeline') >= Len(timeline)
          /\ SubSeq(timeline', 1, Len(timeline)) = timeline
          /\ t' - t = SumSleeps(SubSeq(timeline', Len(timeline) + 1, Len(timeline')))
         ]_vars

C10_Witness ==
    /\ pc = "done"
    /\ t = 100
    /\ Len(drained_apps) = 3

\* C11: get_last_killed gives the sentinel for a key with no record, and the
\* sleep after the first kill of a key is between_containers_grace_sleep
\* whatever the virtual time of that kill.
C11_FirstKillNoStretch ==
    /\ \A key \in Keys :
         (\A k \in DOMAIN drained_apps :
             ~(drained_apps[k][2] = key[1] /\ drained_apps[k][3] = key[2]))
         => get_last_killed(drained_apps, key[1], key[2]) = NeverKilled
    /\ \A k \in DOMAIN drained_apps :
         Earlier(k) = {} =>
            /\ drained_apps[k][1] - NeverKilled >= min_kill_interval
            /\ NthInterSleep(k).secs = between_containers_grace_sleep

C11_Witness ==
    /\ Len(drained_apps) = 3
    /\ SameKey(1, 2)
    /\ Earlier(3) = {}
    /\ drained_apps[3][1] = 90
    /\ NthInterSleep(3).secs = between_containers_grace_sleep

KillIdx == {i \in DOMAIN timeline : timeline[i].kind = "kill"}
RouteOutIdx == {i \in DOMAIN timeline : timeline[i].kind = "route_out"}

\* C12: at every point of the timeline at most one container has its
\* route-out printed and its kill not yet, and between two route-outs lie the
\* kill, the route-in and the inter-container sleep of the first.
C12_SerializedDraining ==
    /\ \A n \in 0..Len(timeline) :
         Cardinality({i \in RouteOutIdx : i <= n})
            - Cardinality({i \in KillIdx : i <= n}) \in {0, 1}
    /\ \A i, j \in RouteOutIdx :
         i < j =>
            \E k \in KillIdx :
               /\ i < k /\ k + 2 < j
               /\ timeline[k].cid = timeline[i].cid
               /\ timeline[k + 1].kind = "route_in"
               /\ timeline[k + 1].cid = timeline[i].cid
               /\ timeline[k + 2].kind = "sleep"
               /\ timeline[k + 2].cid = timeline[i].cid
               /\ timeline[j].at >= timeline[k + 2].at + timeline[k + 2].secs

C12_Witness ==
    /\ pc = "kill"
    /\ Len(drained_apps) = 2
    /\ Cardinality(RouteOutIdx) = 3
    /\ Cardinality(KillIdx) = 2

\* C15: the step in which a command returns a status other than 0 ends the
\* run with a status other than 0, prints no action and leaves the timeline
\* printed so far as it is; after the exit nothing happens any more.
C15_FatalExternalFailure ==
    [][/\ pc = "exited" => vars' = vars
       /\ (invoked' # invoked /\ Last(invoked').rc # 0) =>
            /\ pc' = "exited"
            /\ exit_status' # None
            /\ exit_status' # Some(0)
            /\ Actions' = Actions
            /\ SubSeq(timeline', 1, Len(timeline)) = timeline
            /\ Len(timeline') = Len(timeline) + 1
            /\ Last(timeline').kind = "message"
      ]_vars

C15_Witness ==
    /\ pc = "exited"
    /\ exit_status = Some(ExitStatus(SIGKILLED))
    /\ Last(invoked).rc = SIGKILLED
    /\ Len(invoked) = 3
    /\ Len(Actions) = 5

\* C17: the only commands the run invokes are the listing, once and first,
\* and one inspect per container the loop has reached; hadown, docker kill
\* and haup appear in the timeline only.
C17_PlanModeOnly ==
    /\ \A k \in DOMAIN invoked :
         /\ invoked[k].command \in {"docker ps", "docker inspect"}
         /\ invoked[k].command = "docker ps" <=> k = 1
    /\ Len(invoked) <= 1 + Len(running_container_ids)
    /\ \A i \in RouteOutIdx \cup KillIdx :
         \A k \in DOMAIN invoked :
            invoked[k].arg = timeline[i].cid => invoked[k].command = "docker inspect"

C17_Witness ==
    /\ pc = "done"
    /\ Cardinality(KillIdx) = 3
    /\ Cardinality(RouteOutIdx) = 3
    /\ Len(invoked) = 4

Kills == SelectSeq(timeline, LAMBDA e : e.kind = "kill")

\* C19: every inter-container sleep is at least
\* between_containers_grace_sleep and at most min_kill_interval +
\* between_containers_grace_sleep, and two consecutive kills are at least
\* smartstack_grace_sleep + between_containers_grace_sleep apart.
C19_PacingBounds ==
    /\ \A i \in InterSleepIdx :
         /\ timeline[i].secs >= between_containers_grace_sleep
         /\ timeline[i].secs <= min_kill_interval + between_containers_grace_sleep
         /\ timeline[i].secs > 0
    /\ \A k \in 1..(Len(Kills) - 1) :
         Kills[k + 1].at - Kills[k].at
            >= smartstack_grace_sleep + between_containers_grace_sleep

C19_Witness ==
    /\ Len(Kills) = 3
    /\ Kills[2].at - Kills[1].at = 20
    /\ Kills[3].at - Kills[2].at = 60
    /\ \E i \in InterSleepIdx : timeline[i].secs = 50

\* ------------------------------------------------- the plan as a function
\* The timeline that the inspect results recs, taken in their order, lead to
\* from virtual time now and drain history apps.
RECURSIVE PlanInspections(_, _, _)
PlanInspections(recs, now, apps) ==
    IF recs = <<>> THEN <<>>
    ELSE LET r == Head(recs) IN
         IF r.rc # 0 THEN <<Message("docker inspect")>>
         ELSE LET env == docker_env_to_dict(r.result[1].Config.Env) IN
              IF ~(RequiredEnv \subseteq DOMAIN env)
              THEN <<Entry("warning", r.arg, now, 0, None,
                           "not a paasta container, skipping")>>
                   \o PlanInspections(Tail(recs), now, apps)
              ELSE LET svc == env["PAASTA_SERVICE"]
                       inst == env["PAASTA_INSTANCE"]
                       port == Some(PortTable[env["MARATHON_PORT"]])
                       kill_t == now + smartstack_grace_sleep
                       prev == {k \in DOMAIN apps :
                                  apps[k][2] = svc /\ apps[k][3] = inst}
                       gap == kill_t - (IF prev = {} THEN NeverKilled
                                        ELSE apps[MaxOf(prev)][1])
                       pause == IF gap < min_kill_interval
                                THEN min_kill_interval - gap
                                       + between_containers_grace_sleep
                                ELSE between_containers_grace_sleep
                   IN << Entry("comment", r.arg, now, 0, None, <<svc, inst>>),
                         Entry("info", r.arg, now, 0, port,
                               <<r.arg, svc, inst, get_proxy_port(svc, inst), port>>),
                         Entry("route_out", r.arg, now, hadown_expire_in_seconds,
                               port, <<svc, inst>>),
                         Entry("sleep", r.arg, now, smartstack_grace_sleep, None,
                               NoValue),
                         Entry("kill", r.arg, kill_t, 0, None, r.arg),
                         Entry("route_in", r.arg, kill_t, 0, port, <<svc, inst>>),
                         Entry("sleep", r.arg, kill_t, pause, None, NoValue),
                         Entry("blank", r.arg, kill_t + pause, 0, None, NoValue) >>
                      \o PlanInspections(Tail(recs), kill_t + pause,
                                         Append(apps, <<kill_t, svc, inst>>))

\* the whole output of a run whose commands gave the results in log
PlanOf(log) ==
    IF log = <<>> THEN <<>>
    ELSE IF log[1].rc # 0 THEN <<Message("docker ps")>>
    ELSE IF \E n \in DOMAIN Split(log[1].result) :
               TextLen(Split(log[1].result)[n]) # IdLen
    THEN <<Message("doesn't look like a container ID")>>
    ELSE PlanInspections(Tail(log), 0, <<>>)

IsPrefix(a, b) == Len(a) <= Len(b) /\ SubSeq(b, 1, Len(a)) = a
Settled == pc \in {"loop", "done", "exited"}

\* C16: the timeline is a function of the listing, the processing order and
\* the inspect results: in every state it is the beginning of the one plan
\* these inputs determine, and the whole of it between two containers and at
\* the end of the run; two runs with the same inputs print the same lines.
C16_PlanIsFunctionOfInputs ==
    /\ IsPrefix(timeline, PlanOf(invoked))
    /\ Settled => timeline = PlanOf(invoked)

C16_Witness ==
    /\ pc = "done"
    /\ Len(drained_apps) = 3
    /\ SameKey(1, 3)
    /\ ~SameKey(1, 2)
    /\ timeline = PlanOf(invoked)

\* the inspect results without those of the unmanaged containers
RECURSIVE WithoutUnmanaged(_)
WithoutUnmanaged(recs) ==
    IF recs = <<>> THEN <<>>
    ELSE IF Head(recs).rc = 0
            /\ ~(RequiredEnv \subseteq
                   {Head(recs).result[1].Config.Env[n][1] :
                       n \in DOMAIN Head(recs).result[1].Config.Env})
         THEN WithoutUnmanaged(Tail(recs))
         ELSE <<Head(recs)>> \o WithoutUnmanaged(Tail(recs))

IsSkipStep ==
    /\ Len(timeline') = Len(timeline) + 1
    /\ Last(timeline').kind = "warning"

\* C18: the step that skips an unmanaged container leaves t and
\* drained_apps as they are, and the actions in the timeline are those of
\* the run over the same order without the unmanaged containers.
C18_SkipIsInvisible ==
    /\ [](invoked # <<>> =>
            /\ IsPrefix(Actions,
                 SelectSeq(PlanInspections(WithoutUnmanaged(Tail(invoked)), 0, <<>>),
                           IsAction))
            /\ Settled =>
                 Actions = SelectSeq(PlanInspections(WithoutUnmanaged(Tail(invoked)),
                                                     0, <<>>), IsAction))
    /\ [][IsSkipStep => (t' = t /\ drained_apps' = drained_apps)]_vars

C18_Witness ==
    /\ pc = "done"
    /\ Len(running_container_ids) = 3
    /\ running_container_ids[2] \in UnmanagedIds
    /\ Len(drained_apps) = 2
    /\ SameKey(1, 2)
    /\ t = 80

\* ------------------------------------------- cmd("sudo docker ps -q") inside
\* The call of line 116 step by step: the calling thread (lines 32-63), the
\* child process, the timer thread (_timeout, lines 16-29), and the caller's
\* condquit of line 117.
MainFrame == UNCHANGED mainvars
Alive == {"running", "quiet"}
Interrupts == {"KeyboardInterrupt", "SystemExit"}

InitCmd ==
    /\ InitMain
    /\ cpc = "popen"
    /\ \E raw \in PsOutputs : CmdAtRest(raw)

\* line 37: the child is started
Popen ==
    /\ cpc = "popen"
    /\ proc' = "running"
    /\ cpc' = "new_timer"
    /\ UNCHANGED <<proc_status, towrite, pipe, proctimer, cmd_lines, returncode,
                   handled, raised, interrupt, killed_by, fired_when>>
    /\ MainFrame

\* line 37 raising OSError (no such program), handled at lines 49-51
PopenFails ==
    /\ cpc = "popen"
    /\ cmd_lines' = Append(cmd_lines, StrError)
    /\ returncode' = ENOENT
    /\ handled' = "OSError"
    /\ cpc' = "finish"
    /\ UNCHANGED <<proc, proc_status, towrite, pipe, proctimer, raised, interrupt,
                   killed_by, fired_when>>
    /\ MainFrame

\* lines 38-41: proctimer is bound to a new Timer
NewTimer ==
    /\ cpc = "new_timer"
    /\ proctimer' = "created"
    /\ cpc' = "start_timer"
    /\ UNCHANGED <<proc, proc_status, towrite, pipe, cmd_lines, returncode,
                   handled, raised, interrupt, killed_by, fired_when>>
    /\ MainFrame

\* line 42
StartTimer ==
    /\ cpc = "start_timer"
    /\ proctimer' = "pending"
    /\ cpc' = "read"
    /\ UNCHANGED <<proc, proc_status, towrite, pipe, cmd_lines, returncode,
                   handled, raised, interrupt, killed_by, fired_when>>
    /\ MainFrame

\* lines 43-46: readline gives the next line, or the end of the stream once
\* the child has closed its stdout; it blocks otherwise
Readline ==
    /\ cpc = "read"
    /\ IF pipe # <<>>
       THEN /\ cmd_lines' = Append(cmd_lines, RstripNL(Head(pipe)))
            /\ pipe' = Tail(pipe)
            /\ cpc' = "read"
       ELSE /\ proc \notin {"none", "running"}
            /\ cpc' = "wait"
            /\ UNCHANGED <<cmd_lines, pipe>>
    /\ UNCHANGED <<proc, proc_status, towrite, proctimer, returncode, handled,
                   raised, interrupt, killed_by, fired_when>>
    /\ MainFrame

\* line 48: wait returns once the child has ended
Wait ==
    /\ cpc = "wait"
    /\ proc \in {"exited", "reaped"}
    /\ returncode' = proc_status
    /\ proc' = "reaped"
    /\ cpc' = "cancel"
    /\ UNCHANGED <<proc_status, towrite, pipe, proctimer, cmd_lines, handled,
                   raised, interrupt, killed_by, fired_when>>
    /\ MainFrame

\* readline or wait raising OSError, handled at lines 49-51
OSErrorRaised ==
    /\ cpc \in {"read", "wait"}
    /\ cmd_lines' = Append(cmd_lines, StrError)
    /\ returncode' = ENOENT
    /\ handled' = "OSError"
    /\ cpc' = "finish"
    /\ UNCHANGED <<proc, proc_status, towrite, pipe, proctimer, raised, interrupt,
                   killed_by, fired_when>>
    /\ MainFrame

\* KeyboardInterrupt or SystemExit inside the try statement, lines 52-56:
\* proctimer.cancel(), which needs proctimer bound, then raise
InterruptInTry ==
    /\ cpc \in {"popen", "new_timer", "start_timer", "read", "wait"}
    /\ \E sig \in Interrupts :
         /\ interrupt' = sig
         /\ raised' = IF proctimer = "unbound" THEN "UnboundLocalError" ELSE sig
    /\ proctimer' = IF proctimer \in {"created", "pending"} THEN "cancelled"
                    ELSE proctimer
    /\ handled' = "Interrupt"
    /\ cpc' = "raised"
    /\ UNCHANGED <<proc, proc_status, towrite, pipe, cmd_lines, returncode,
                   killed_by, fired_when>>
    /\ MainFrame

\* KeyboardInterrupt or SystemExit after the try statement's body, at lines
\* 57-63, where no except clause applies
InterruptAfterTry ==
    /\ cpc \in {"cancel", "finish"}
    /\ \E sig \in Interrupts :
         /\ interrupt' = sig
         /\ raised' = sig
    /\ cpc' = "raised"
    /\ UNCHANGED <<proc, proc_status, towrite, pipe, proctimer, cmd_lines,
                   returncode, handled, killed_by, fired_when>>
    /\ MainFrame

\* lines 57-60: Timer.cancel() stops a timer that has not fired yet
Cancel ==
    /\ cpc = "cancel"
    /\ proctimer' = IF proctimer \in {"created", "pending"} THEN "cancelled"
                    ELSE proctimer
    /\ cpc' = "finish"
    /\ UNCHANGED <<proc, proc_status, towrite, pipe, cmd_lines, returncode,
                   handled, raised, interrupt, killed_by, fired_when>>
    /\ MainFrame

\* lines 61-63 and the assignment of line 116
CmdReturn ==
    /\ cpc = "finish"
    /\ rc' = returncode
    /\ output' = JoinNL(IF returncode = SIGKILLED
                        THEN Append(cmd_lines, TimedOutMessage)
                        ELSE cmd_lines)
    /\ cpc' = "returned"
    /\ UNCHANGED <<pc, lines, running_container_ids, todo, container_id,
                   environment, service, instance, marathon_port, proxy_port,
                   drained_apps, t, timeline, invoked, exit_status>>
    /\ UNCHANGED <<proc, proc_status, towrite, pipe, proctimer, cmd_lines,
                   returncode, handled, raised, interrupt, killed_by, fired_when>>

\* lines 117-118
CallerCondquit ==
    /\ cpc = "returned"
    /\ invoked' = Append(invoked, [command |-> "docker ps", arg |-> <<>>,
                                   rc |-> rc, result |-> output])
    /\ IF condquit(rc)
       THEN Quit(rc, "docker ps") /\ UNCHANGED lines
       ELSE /\ lines' = Split(output)
            /\ pc' = "check_lines"
            /\ UNCHANGED <<exit_status, timeline>>
    /\ cpc' = "caller_done"
    /\ UNCHANGED <<rc, output, running_container_ids, todo, container_id,
                   environment, service, instance, marathon_port, proxy_port,
                   drained_apps, t>>
    /\ UNCHANGED <<proc, proc_status, towrite, pipe, proctimer, cmd_lines,
                   returncode, handled, raised, interrupt, killed_by, fired_when>>

\* the child writes its next line
ProcWrite ==
    /\ proc = "running"
    /\ towrite # <<>>
    /\ pipe' = Append(pipe, Head(towrite))
    /\ towrite' = Tail(towrite)
    /\ UNCHANGED <<cpc, proc, proc_status, proctimer, cmd_lines, returncode,
                   handled, raised, interrupt, killed_by, fired_when>>
    /\ MainFrame

\* the child closes its stdout and goes on running
ProcCloseStdout ==
    /\ proc = "running"
    /\ towrite = <<>>
    /\ proc' = "quiet"
    /\ UNCHANGED <<cpc, proc_status, towrite, pipe, proctimer, cmd_lines,
                   returncode, handled, raised, interrupt, killed_by, fired_when>>
    /\ MainFrame

\* the child ends by itself
ProcExit ==
    /\ proc \in Alive
    /\ \E status \in {0, 1} : proc_status' = status
    /\ proc' = "exited"
    /\ towrite' = <<>>
    /\ UNCHANGED <<cpc, pipe, proctimer, cmd_lines, returncode, handled, raised,
                   interrupt, killed_by, fired_when>>
    /\ MainFrame

\* the child gets a SIGKILL from somewhere else (the kernel, an operator)
ProcKilledByOther ==
    /\ proc \in Alive
    /\ proc_status' = SIGKILLED
    /\ killed_by' = "other"
    /\ proc' = "exited"
    /\ towrite' = <<>>
    /\ UNCHANGED <<cpc, pipe, proctimer, cmd_lines, returncode, handled, raised,
                   interrupt, fired_when>>
    /\ MainFrame

\* the timeout is over: the Timer thread calls _timeout(process)
TimerFire ==
    /\ proctimer = "pending"
    /\ proctimer' = "polling"
    /\ fired_when' = IF proc \in Alive THEN "running" ELSE "finished"
    /\ UNCHANGED <<cpc, proc, proc_status, towrite, pipe, cmd_lines, returncode,
                   handled, raised, interrupt, killed_by>>
    /\ MainFrame

\* line 21: poll() is None for a child that is alive, and for one that has
\* ended while the calling thread is inside wait(); else it reaps the child
TimerPoll ==
    /\ proctimer = "polling"
    /\ \/ /\ proc \in Alive \/ (proc = "exited" /\ cpc = "wait")
          /\ proctimer' = "killing"
          /\ UNCHANGED proc
       \/ /\ proc \in {"exited", "reaped"}
          /\ proctimer' = "finished"
          /\ proc' = "reaped"
    /\ UNCHANGED <<cpc, proc_status, towrite, pipe, cmd_lines, returncode,
                   handled, raised, interrupt, killed_by, fired_when>>
    /\ MainFrame

\* lines 22-29: process.kill().  A child that is alive dies of SIGKILL; for
\* one that has ended the signal is lost or ESRCH is swallowed; any other
\* error (EPERM: the child runs under sudo) is raised in the Timer thread
\* and the child lives on.
TimerKill ==
    /\ proctimer = "killing"
    /\ \/ /\ proctimer' = "finished"
          /\ IF proc \in Alive
             THEN /\ proc' = "exited"
                  /\ proc_status' = SIGKILLED
                  /\ killed_by' = "timer"
                  /\ towrite' = <<>>
             ELSE UNCHANGED <<proc, proc_status, killed_by, towrite>>
       \/ /\ proc \in Alive
          /\ proctimer' = "crashed"
          /\ UNCHANGED <<proc, proc_status, killed_by, towrite>>
    /\ UNCHANGED <<cpc, pipe, cmd_lines, returncode, handled, raised, interrupt,
                   fired_when>>
    /\ MainFrame

NextCmd ==
    \/ Popen
    \/ PopenFails
    \/ NewTimer
    \/ StartTimer
    \/ Readline
    \/ Wait
    \/ OSErrorRaised
    \/ InterruptInTry
    \/ InterruptAfterTry
    \/ Cancel
    \/ CmdReturn
    \/ CallerCondquit
    \/ ProcWrite
    \/ ProcCloseStdout
    \/ ProcExit
    \/ ProcKilledByOther
    \/ TimerFire
    \/ TimerPoll
    \/ TimerKill

SpecCmd == InitCmd /\ [][NextCmd]_vars

\* --------------------------------------------------- the timer of cmd
CmdOver == cpc \in {"returned", "raised", "caller_done"}
ReportsTimeout(text) == LET ls == Split(text) IN ls[Len(ls)] = TimedOutMessage

\* C13: when cmd completes normally its timer has been cancelled before it
\* returns; when KeyboardInterrupt or SystemExit arrives at any point during
\* cmd, a pending timer is cancelled and that same interrupt is what cmd
\* raises.
C13_TimerCancelledInterruptPropagates ==
    /\ (cpc \in {"returned", "caller_done"} /\ handled = "none")
          => proctimer \notin {"created", "pending"}
    /\ cpc = "raised"
          => /\ raised = interrupt
             /\ proctimer # "pending"

\* C14: under every interleaving, a command still running when the timer
\* fires is killed with SIGKILL, cmd returns -9 with the timed-out message
\* and the run exits non-zero; a command that had finished before the timer
\* fired is never killed by the timer and never reported as timed out.
C14_TimeoutKillsOnlyRunning ==
    /\ (cpc = "caller_done" /\ handled = "none" /\ fired_when = "running")
          => /\ killed_by = "timer"
             /\ rc = SIGKILLED
             /\ ReportsTimeout(output)
             /\ exit_status \notin {None, Some(0)}
    /\ fired_when # "running" => killed_by # "timer"
    /\ (cpc \in {"returned", "caller_done"} /\ fired_when # "running")
          => ~ReportsTimeout(output)

\* C20: whenever cmd has returned or raised, on every path, the OSError
\* ones included, no started timer is still pending.
C20_NoDanglingTimer == CmdOver => proctimer # "pending"
====
